---- MODULE Spec2Model ----
(***************************************************************************)
(* Model of html_chat_to_md.py: ConversationParser, an html.parser         *)
(* HTMLParser subclass whose callbacks (handle_starttag, handle_data,      *)
(* handle_endtag) segment a saved chat page into (role, text) messages,    *)
(* and convert_html_to_markdown, which feeds a document through it.        *)
(*                                                                         *)
(* The document is seen as HTMLParser delivers it: a sequence of           *)
(* start-tag, data and end-tag callbacks.  A Python str is a sequence of   *)
(* one-character strings, so that re.search, "".join and str.strip are     *)
(* computed and not assumed.                                               *)
(***************************************************************************)
EXTENDS Naturals, Sequences, FiniteSets

VARIABLES
    pc,            \* "feeding" | "done" (convert_html_to_markdown returned) | "error" (an exception left feed)
    messages,      \* ConversationParser.messages
    current_role,  \* ConversationParser._current_role
    buffer,        \* ConversationParser._buffer
    events,        \* the callbacks delivered so far, in order (the input consumed)
    earlier,       \* the calls of convert_html_to_markdown that ended before this one: document and outcome
    cli            \* main(): the arguments, what the input path is, the output path, what was written, printed, exited with

vars == <<pc, messages, current_role, buffer, events, earlier, cli>>

\* ---------------------------------------------------------------- bounds

MaxEvents == 5

MaxSimpleEvents == 6

MaxNestedEvents == 5

MaxRoleEvents == 2

MaxTwiceEvents == 4

MaxMainEvents == 5

\* ------------------------------------------------------ Python str values

None == "None"

PROMPTER == "PROMPTER"

CHAT == "CHAT"

UpperCase == <<"A","B","C","D","E","F","G","H","I","J","K","L","M",
               "N","O","P","Q","R","S","T","U","V","W","X","Y","Z">>

LowerCase == <<"a","b","c","d","e","f","g","h","i","j","k","l","m",
               "n","o","p","q","r","s","t","u","v","w","x","y","z">>

FoldTable ==
    [c \in {UpperCase[i] : i \in 1..Len(UpperCase)} |->
        LowerCase[CHOOSE i \in 1..Len(UpperCase) : UpperCase[i] = c]]

\* the case folding re.IGNORECASE compares characters under (ASCII letters)
Fold(c) == IF c \in DOMAIN FoldTable THEN FoldTable[c] ELSE c

\* re.search(<literal pat>, s, re.IGNORECASE) is not None
ReSearchIgnoreCase(pat, s) ==
    \E i \in 1..(Len(s) + 1) :
        /\ i + Len(pat) - 1 <= Len(s)
        /\ \A j \in 1..Len(pat) : Fold(s[i + j - 1]) = Fold(pat[j])

pat_user == <<"u","s","e","r">>

pat_assistant == <<"a","s","s","i","s","t","a","n","t">>

pat_bot == <<"b","o","t">>

pat_chatgpt == <<"c","h","a","t","g","p","t">>

\* characters str.strip() removes (ASCII whitespace)
IsSpace(c) == c \in {" ", "\t", "\n", "\r", "\f"}

\* str.strip()
Strip(s) ==
    LET keep == {i \in 1..Len(s) : ~IsSpace(s[i])}
    IN  IF keep = {} THEN <<>>
        ELSE SubSeq(s, CHOOSE i \in keep : \A k \in keep : i <= k,
                       CHOOSE i \in keep : \A k \in keep : i >= k)

RECURSIVE Join(_)
\* "".join(fragments)
Join(fragments) ==
    IF fragments = <<>> THEN <<>>
    ELSE Head(fragments) \o Join(Tail(fragments))

\* an attribute value: a str, or None for an attribute written without a value
StrVal(s) == [none |-> FALSE, s |-> s]

NoneVal == [none |-> TRUE, s |-> <<>>]

\* {k: v for k, v in attrs}.get(key, default): the last pair of that name wins
DictGet(attrs, key, default) ==
    LET hits == {i \in 1..Len(attrs) : attrs[i][1] = key}
    IN  IF hits = {} THEN default
        ELSE attrs[CHOOSE i \in hits : \A k \in hits : i >= k][2]

\* ------------------------------------------------- ConversationParser

\* __init__
NewParser == [messages |-> <<>>, current_role |-> None, buffer |-> <<>>, raised |-> FALSE]

\* a parser whose messages list is one list shared by all instances
ConversationParser_shared_messages(previous) ==
    [NewParser EXCEPT !.messages = previous.messages]

\* ConversationParser(), line 59, built after the parser of an earlier call:
\* __init__ makes new lists and reads nothing of it
ConversationParser(previous) == NewParser

\* _close_message storing the joined text without strip()
close_message_unstripped(st) ==
    LET text == Join(st.buffer)
        appended ==
            IF st.current_role # None /\ st.buffer # <<>> /\ text # <<>>
            THEN Append(st.messages, <<st.current_role, text>>)
            ELSE st.messages
    IN  [st EXCEPT !.messages = appended, !.buffer = <<>>, !.current_role = None]

\* _close_message with lines 46-47 indented under the if of line 42
close_message_clears_inside_if(st) ==
    LET text == Strip(Join(st.buffer))
    IN  IF st.current_role # None /\ st.buffer # <<>>
        THEN [st EXCEPT !.messages = IF text # <<>>
                                     THEN Append(st.messages, <<st.current_role, text>>)
                                     ELSE st.messages,
                        !.buffer = <<>>, !.current_role = None]
        ELSE st

\* _close_message without the test of line 44
close_message_no_text_check(st) ==
    LET text == Strip(Join(st.buffer))
        appended ==
            IF st.current_role # None /\ st.buffer # <<>>
            THEN Append(st.messages, <<st.current_role, text>>)
            ELSE st.messages
    IN  [st EXCEPT !.messages = appended, !.buffer = <<>>, !.current_role = None]

\* _close_message inserting the Message at the front of the transcript
close_message_prepends(st) ==
    LET text == Strip(Join(st.buffer))
        appended ==
            IF st.current_role # None /\ st.buffer # <<>> /\ text # <<>>
            THEN << <<st.current_role, text>> >> \o st.messages
            ELSE st.messages
    IN  [st EXCEPT !.messages = appended, !.buffer = <<>>, !.current_role = None]

\* _close_message without line 46
close_message_keeps_buffer(st) ==
    LET text == Strip(Join(st.buffer))
        appended ==
            IF st.current_role # None /\ st.buffer # <<>> /\ text # <<>>
            THEN Append(st.messages, <<st.current_role, text>>)
            ELSE st.messages
    IN  [st EXCEPT !.messages = appended, !.current_role = None]

\* _close_message without line 47
close_message_keeps_role(st) ==
    LET text == Strip(Join(st.buffer))
        appended ==
            IF st.current_role # None /\ st.buffer # <<>> /\ text # <<>>
            THEN Append(st.messages, <<st.current_role, text>>)
            ELSE st.messages
    IN  [st EXCEPT !.messages = appended, !.buffer = <<>>]

\* _close_message
close_message(st) ==
    LET text == Strip(Join(st.buffer))
        appended ==
            IF st.current_role # None /\ st.buffer # <<>> /\ text # <<>>
            THEN Append(st.messages, <<st.current_role, text>>)
            ELSE st.messages
    IN  [st EXCEPT !.messages = appended, !.buffer = <<>>, !.current_role = None]

\* the role signal with the two tests in the other order
DetectRole_assistant_first(classes) ==
    IF \/ ReSearchIgnoreCase(pat_assistant, classes)
       \/ ReSearchIgnoreCase(pat_bot, classes)
       \/ ReSearchIgnoreCase(pat_chatgpt, classes)
    THEN CHAT
    ELSE IF ReSearchIgnoreCase(pat_user, classes) THEN PROMPTER
    ELSE None

\* the role signal of handle_starttag, lines 23-27, for a str classes
DetectRole(classes) ==
    IF ReSearchIgnoreCase(pat_user, classes) THEN PROMPTER
    ELSE IF \/ ReSearchIgnoreCase(pat_assistant, classes)
            \/ ReSearchIgnoreCase(pat_bot, classes)
            \/ ReSearchIgnoreCase(pat_chatgpt, classes)
         THEN CHAT
    ELSE None

\* handle_starttag without the call of line 29
handle_starttag_without_close(st, tag, attrs) ==
    LET classes == DictGet(attrs, "class", StrVal(<<>>))
    IN  IF classes.none THEN [st EXCEPT !.raised = TRUE]
        ELSE LET role == DetectRole(classes.s)
             IN  IF role # None
                 THEN [st EXCEPT !.current_role = role]
                 ELSE st

\* handle_starttag with the call of line 29 outside the if of line 28
handle_starttag_always_closes(st, tag, attrs) ==
    LET classes == DictGet(attrs, "class", StrVal(<<>>))
    IN  IF classes.none THEN [st EXCEPT !.raised = TRUE]
        ELSE LET role == DetectRole(classes.s)
             IN  IF role # None
                 THEN [close_message(st) EXCEPT !.current_role = role]
                 ELSE close_message(st)

\* handle_starttag: re.search raises TypeError when classes is None
handle_starttag(st, tag, attrs) ==
    LET classes == DictGet(attrs, "class", StrVal(<<>>))
    IN  IF classes.none THEN [st EXCEPT !.raised = TRUE]
        ELSE LET role == DetectRole(classes.s)
             IN  IF role # None
                 THEN [close_message(st) EXCEPT !.current_role = role]
                 ELSE st

\* handle_data inserting at the front of the buffer
handle_data_prepends(st, data) ==
    IF st.current_role # None
    THEN [st EXCEPT !.buffer = <<data>> \o st.buffer]
    ELSE st

\* handle_data without the test of line 33
handle_data_unconditional(st, data) ==
    [st EXCEPT !.buffer = Append(st.buffer, data)]

\* handle_data
handle_data(st, data) ==
    IF st.current_role # None
    THEN [st EXCEPT !.buffer = Append(st.buffer, data)]
    ELSE st

ContainerTags == {"div", "p", "span"}

\* handle_endtag closing on the div end tag alone
handle_endtag_div_only(st, tag) ==
    IF st.current_role # None /\ tag = "div"
    THEN close_message(st)
    ELSE st

\* handle_endtag without the test of the tag name
handle_endtag_any_tag(st, tag) ==
    IF st.current_role # None
    THEN close_message(st)
    ELSE st

\* handle_endtag
handle_endtag(st, tag) ==
    IF st.current_role # None /\ tag \in ContainerTags
    THEN close_message(st)
    ELSE st

\* --------------------------------------------------------------- main

\* os.path.isfile of a path that is a regular file, a directory or missing
isfile_exists(kind) == kind \in {"file", "dir"}

isfile(kind) == kind = "file"

\* os.path.splitext: the extension starts at the last dot of the last path
\* component, unless only dots precede that dot in the component
splitext(p) ==
    LET seps == {i \in 1..Len(p) : p[i] = "/"}
        dots == {i \in 1..Len(p) : p[i] = "."}
        sep == IF seps = {} THEN 0 ELSE CHOOSE i \in seps : \A k \in seps : i >= k
        dot == IF dots = {} THEN 0 ELSE CHOOSE i \in dots : \A k \in dots : i >= k
    IN  IF dot > sep /\ \E k \in (sep + 1)..(dot - 1) : p[k] # "."
        THEN <<SubSeq(p, 1, dot - 1), SubSeq(p, dot, Len(p))>>
        ELSE <<p, <<>>>>

\* the truth value of args.output_file: None and "" are false
Truthy(v) == ~v.none /\ v.s # <<>>

\* line 76 with the suffix put after the whole input path
output_path_appends(args) ==
    IF Truthy(args.output_file) THEN args.output_file.s
    ELSE args.input_file \o <<".","m","d">>

\* line 76: args.output_file or os.path.splitext(args.input_file)[0] + ".md"
output_path(args) ==
    IF Truthy(args.output_file) THEN args.output_file.s
    ELSE splitext(args.input_file)[1] \o <<".","m","d">>

\* str(role), as the f-string of line 69 formats it
RoleStr(role) ==
    IF role = PROMPTER THEN <<"P","R","O","M","P","T","E","R">> ELSE <<"C","H","A","T">>

\* write_markdown ending each Message with one line break
write_markdown_one_newline(msgs) ==
    Join([i \in 1..Len(msgs) |->
            RoleStr(msgs[i][1]) \o <<":", "\n">> \o msgs[i][2] \o <<"\n">>])

\* write_markdown: what the file holds when it is closed
write_markdown(msgs) ==
    Join([i \in 1..Len(msgs) |->
            RoleStr(msgs[i][1]) \o <<":", "\n">> \o msgs[i][2] \o <<"\n", "\n">>])

\* no command line: convert_html_to_markdown called on its own
NoCli ==
    [input_file |-> <<>>, output_file |-> NoneVal, kind |-> "file", output |-> <<>>,
     written |-> <<>>, printed |-> <<>>, exit |-> None]

\* one callback, as HTMLParser dispatches it; none after an exception
Dispatch(st, e) ==
    CASE st.raised        -> st
      [] e.kind = "start" -> handle_starttag(st, e.tag, e.attrs)
      [] e.kind = "data"  -> handle_data(st, e.data)
      [] e.kind = "end"   -> handle_endtag(st, e.tag)

StartEvent(tag, attrs) == [kind |-> "start", tag |-> tag, attrs |-> attrs]

DataEvent(data) == [kind |-> "data", data |-> data]

EndEvent(tag) == [kind |-> "end", tag |-> tag]

\* ------------------------------------------------------------- inputs

\* class-attribute texts and text fragments the documents are drawn from
cls_empty == <<>>

cls_user == <<"u","s","e","r">>

cls_USER == <<"U","S","E","R">>

cls_User_msg == <<"U","s","e","r","-","m","s","g">>

cls_user_message == <<"u","s","e","r","-","m","e","s","s","a","g","e">>

cls_assistant_message == <<"a","s","s","i","s","t","a","n","t","-","m","e","s","s","a","g","e">>

cls_Assistant == <<"A","s","s","i","s","t","a","n","t">>

cls_bot == <<"b","o","t">>

cls_BOT == <<"B","O","T">>

cls_robot == <<"r","o","b","o","t">>

cls_chatgpt == <<"c","h","a","t","g","p","t">>

cls_ChatGPT == <<"C","h","a","t","G","P","T">>

cls_user_assistant == <<"u","s","e","r"," ","a","s","s","i","s","t","a","n","t">>

cls_assistant_user == <<"a","s","s","i","s","t","a","n","t"," ","u","s","e","r">>

cls_bot_User == <<"b","o","t","-","U","s","e","r">>

cls_chatgpt_USER == <<"c","h","a","t","g","p","t"," ","U","S","E","R">>

cls_superuser == <<"s","u","p","e","r","u","s","e","r">>

cls_message == <<"m","e","s","s","a","g","e">>

cls_use == <<"u","s","e">>

cls_us_er == <<"u","s"," ","e","r">>

cls_bo_t == <<"b","o","-","t">>

cls_chat == <<"c","h","a","t">>

cls_assist == <<"a","s","s","i","s","t">>

cls_resu == <<"r","e","s","u"," ","t","o","b">>

cls_markdown == <<"m","a","r","k","d","o","w","n"," ","p","r","o","s","e">>

txt_A == <<"A">>

txt_B == <<" ","B","\n">>

txt_ws == <<" ","\n">>

txt_Hi_there == <<"H","i"," ","t","h","e","r","e">>

txt_Hello == <<"H","e","l","l","o","!"," ","H","o","w"," ","c","a","n"," ","I"," ","h","e","l","p","?">>

txt_tab_C == <<"\t","C"," ","d"," ">>


ClassAttr(s) == <<<<"class", StrVal(s)>>>>

\* start tags of the documents of Spec: a PROMPTER marker, a CHAT marker, an
\* element with no class attribute, an element whose class has no value
StartEvents ==
    { StartEvent("div", ClassAttr(cls_user)),
      StartEvent("div", ClassAttr(cls_bot)),
      StartEvent("p", <<>>),
      StartEvent("div", <<<<"class", NoneVal>>>>) }

DataFragments == {txt_A, txt_B, txt_ws}

EndTags == {"div", "p", "b"}

\* role-marked start tags, for documents of the shape (marker, text*, close)*
SimpleStartEvents ==
    { StartEvent("div", ClassAttr(cls_user_message)),
      StartEvent("div", ClassAttr(cls_assistant_message)),
      StartEvent("p", ClassAttr(cls_USER)),
      StartEvent("span", ClassAttr(cls_ChatGPT)) }

SimpleDataFragments == {txt_Hi_there, txt_Hello, txt_ws, txt_tab_C}

\* attribute lists of one start tag, for the role detection
RoleAttrs ==
    { ClassAttr(c) : c \in
        { cls_empty, cls_user, cls_USER, cls_User_msg, cls_user_message,
          cls_assistant_message, cls_Assistant, cls_bot, cls_BOT, cls_robot,
          cls_chatgpt, cls_ChatGPT, cls_user_assistant, cls_assistant_user,
          cls_bot_User, cls_chatgpt_USER, cls_superuser, cls_message, cls_use,
          cls_us_er, cls_bo_t, cls_chat, cls_assist, cls_resu, cls_markdown } }
    \cup
    { <<>>,
      <<<<"class", NoneVal>>>>,
      <<<<"id", StrVal(cls_user)>>>>,
      <<<<"id", StrVal(cls_message)>>, <<"class", StrVal(cls_bot)>>>>,
      <<<<"class", StrVal(cls_bot)>>, <<"class", StrVal(cls_user)>>>>,
      <<<<"class", StrVal(cls_user)>>, <<"class", StrVal(cls_message)>>>>,
      <<<<"class", StrVal(cls_user)>>, <<"class", NoneVal>>>> }

RoleStartEvents == { StartEvent("div", a) : a \in RoleAttrs }

\* --------------------------------------------------------- the machine

Last(s) == s[Len(s)]

\* the parser object as the callbacks see it
Parser == [messages |-> messages, current_role |-> current_role,
           buffer |-> buffer, raised |-> FALSE]

\* the parser after a callback; an exception leaves feed() and the caller
Becomes(st, e) ==
    /\ messages' = st.messages
    /\ current_role' = st.current_role
    /\ buffer' = st.buffer
    /\ pc' = IF st.raised THEN "error" ELSE "feeding"
    /\ events' = Append(events, e)
    /\ UNCHANGED <<earlier, cli>>

\* convert_html_to_markdown, line 59
Init ==
    /\ pc = "feeding"
    /\ messages = NewParser.messages
    /\ current_role = NewParser.current_role
    /\ buffer = NewParser.buffer
    /\ events = <<>>
    /\ earlier = <<>>
    /\ cli = NoCli

StartTagFrom(S, max) ==
    /\ pc = "feeding"
    /\ Len(events) < max
    /\ \E e \in S : Becomes(handle_starttag(Parser, e.tag, e.attrs), e)

DataFrom(S, max) ==
    /\ pc = "feeding"
    /\ Len(events) < max
    /\ \E d \in S : Becomes(handle_data(Parser, d), DataEvent(d))

EndTagFrom(S, max) ==
    /\ pc = "feeding"
    /\ Len(events) < max
    /\ \E t \in S : Becomes(handle_endtag(Parser, t), EndEvent(t))

HandleStartTag == StartTagFrom(StartEvents, MaxEvents)

HandleData == DataFrom(DataFragments, MaxEvents)

HandleEndTag == EndTagFrom(EndTags, MaxEvents)

\* end of input: parser.close() is HTMLParser.close(), which delivers what is
\* left of the text as callbacks and calls nothing of ConversationParser;
\* then parser.messages is returned
Close ==
    /\ pc = "feeding"
    /\ pc' = "done"
    /\ UNCHANGED <<messages, current_role, buffer, events, earlier, cli>>

Next == HandleStartTag \/ HandleData \/ HandleEndTag \/ Close

Spec == Init /\ [][Next]_vars

\* documents of the shape (role marker, text*, div/p/span end tag)*
InElement == events # <<>> /\ Last(events).kind \in {"start", "data"}

SimpleOpen == ~InElement /\ StartTagFrom(SimpleStartEvents, MaxSimpleEvents)

SimpleText == InElement /\ DataFrom(SimpleDataFragments, MaxSimpleEvents)

SimpleEnd == InElement /\ EndTagFrom(ContainerTags, MaxSimpleEvents)

SimpleClose == ~InElement /\ Close

NextSimple == SimpleOpen \/ SimpleText \/ SimpleEnd \/ SimpleClose

SpecSimple == Init /\ [][NextSimple]_vars

\* documents of a few tags whose class attributes vary widely
RoleStartTag == StartTagFrom(RoleStartEvents, MaxRoleEvents)

RoleDataFragments == {txt_A}

RoleEndTags == {"div"}

RoleData == DataFrom(RoleDataFragments, MaxRoleEvents)

RoleEndTag == EndTagFrom(RoleEndTags, MaxRoleEvents)

RoleClose == Close

NextRole == RoleStartTag \/ RoleData \/ RoleEndTag \/ RoleClose

SpecRole == Init /\ [][NextRole]_vars

\* documents whose elements mostly carry no role signal: no class, an empty
\* class, a class naming no role, the word user in another attribute
NestedStartEvents ==
    { StartEvent("div", ClassAttr(cls_user)),
      StartEvent("b", <<>>),
      StartEvent("i", ClassAttr(cls_empty)),
      StartEvent("a", ClassAttr(cls_message)),
      StartEvent("li", <<<<"id", StrVal(cls_user)>>>>) }

NestedStartTag == StartTagFrom(NestedStartEvents, MaxNestedEvents)

NestedDataFragments == {txt_A, txt_B}

NestedEndTags == {"div", "b"}

NestedData == DataFrom(NestedDataFragments, MaxNestedEvents)

NestedEndTag == EndTagFrom(NestedEndTags, MaxNestedEvents)

NestedClose == Close

NextNested == NestedStartTag \/ NestedData \/ NestedEndTag \/ NestedClose

SpecNested == Init /\ [][NextNested]_vars

\* the same document converted twice, one call after the other
TwiceStartTag == earlier = <<>> /\ StartTagFrom(StartEvents, MaxTwiceEvents)

TwiceData == earlier = <<>> /\ DataFrom(DataFragments, MaxTwiceEvents)

TwiceEndTag == earlier = <<>> /\ EndTagFrom(EndTags, MaxTwiceEvents)

TwiceClose == earlier = <<>> /\ Close

\* the second call of convert_html_to_markdown, on the same file
CallAgain ==
    /\ pc \in {"done", "error"}
    /\ earlier = <<>>
    /\ earlier' = <<[events |-> events, messages |-> messages, pc |-> pc]>>
    /\ pc' = "feeding"
    /\ messages' = ConversationParser(Parser).messages
    /\ current_role' = ConversationParser(Parser).current_role
    /\ buffer' = ConversationParser(Parser).buffer
    /\ events' = <<>>
    /\ UNCHANGED cli

\* the next callback of the document of the first call
Replay ==
    /\ earlier # <<>>
    /\ pc = "feeding"
    /\ Len(events) < Len(earlier[1].events)
    /\ Becomes(Dispatch(Parser, earlier[1].events[Len(events) + 1]),
               earlier[1].events[Len(events) + 1])

ReplayClose == earlier # <<>> /\ events = earlier[1].events /\ Close

NextTwice ==
    TwiceStartTag \/ TwiceData \/ TwiceEndTag \/ TwiceClose \/ CallAgain \/ Replay
        \/ ReplayClose

SpecTwice == Init /\ [][NextTwice]_vars

\* the program run from the command line
path_chat_html == <<"c","h","a","t",".","h","t","m","l">>

path_chat == <<"c","h","a","t">>

path_dot_chat == <<".","c","h","a","t">>

path_dir_chat == <<"m","y",".","d","i","r","/","c","h","a","t">>

path_tar_gz == <<"a",".","t","a","r",".","g","z">>

path_out_txt == <<"o","u","t",".","t","x","t">>

InputPaths == {path_chat_html, path_chat, path_dot_chat, path_dir_chat, path_tar_gz}

\* the optional argument: left out, the empty string, a path
OutputArgs == {NoneVal, StrVal(<<>>), StrVal(path_out_txt)}

PathKinds == {"file", "dir", "missing"}

\* parse_arguments, line 73
InitMain ==
    /\ pc = "main"
    /\ messages = NewParser.messages
    /\ current_role = NewParser.current_role
    /\ buffer = NewParser.buffer
    /\ events = <<>>
    /\ earlier = <<>>
    /\ cli \in {[NoCli EXCEPT !.input_file = i, !.output_file = o, !.kind = k] :
                    i \in InputPaths, o \in OutputArgs, k \in PathKinds}

\* lines 74-77, up to the call of convert_html_to_markdown
MainStart ==
    /\ pc = "main"
    /\ IF ~isfile(cli.kind)
       THEN /\ pc' = "exit"
            /\ cli' = [cli EXCEPT !.exit = "Input file not found"]
       ELSE /\ pc' = "feeding"
            /\ cli' = [cli EXCEPT !.output = output_path(cli)]
    /\ UNCHANGED <<messages, current_role, buffer, events, earlier>>

\* convert_html_to_markdown inside main: an exception of a callback leaves
\* main before line 78
MainStartEvents ==
    { StartEvent("div", ClassAttr(cls_user)),
      StartEvent("div", ClassAttr(cls_bot)),
      StartEvent("div", <<<<"class", NoneVal>>>>) }

MainDataFragments == {txt_A, txt_B}

MainEndTags == {"div"}

MainStartTag == StartTagFrom(MainStartEvents, MaxMainEvents)

MainData == DataFrom(MainDataFragments, MaxMainEvents)

MainEndTag == EndTagFrom(MainEndTags, MaxMainEvents)

MainClose == Close

\* lines 78-79: write_markdown, then the report
MainWrite ==
    /\ pc = "done"
    /\ pc' = "finished"
    /\ cli' = [cli EXCEPT
                 !.written = Append(@, [path |-> cli.output,
                                        content |-> write_markdown(messages)]),
                 !.printed = Append(@, [count |-> Len(messages), path |-> cli.output])]
    /\ UNCHANGED <<messages, current_role, buffer, events, earlier>>

NextMain == MainStart \/ MainStartTag \/ MainData \/ MainEndTag \/ MainClose \/ MainWrite

SpecMain == InitMain /\ [][NextMain]_vars

\* the parser after the callbacks evs, from a new parser
RECURSIVE Feed(_)
Feed(evs) ==
    IF evs = <<>> THEN NewParser
    ELSE CHOOSE after \in {Dispatch(st, Last(evs)) :
                              st \in {Feed(SubSeq(evs, 1, Len(evs) - 1))}} : TRUE

\* ------------------------------------------- what the claims speak of

\* s with its letters in lower case
Lowered(s) == [i \in 1..Len(s) |-> Fold(s[i])]

\* w is a run of consecutive characters of s
Occurs(w, s) ==
    \E i \in 1..Len(s) :
        /\ i + Len(w) - 1 <= Len(s)
        /\ SubSeq(s, i, i + Len(w) - 1) = w

\* s contains the lower-case word w in some letter case
HasWord(s, w) == Occurs(w, Lowered(s))

\* the role a class-attribute text stands for
ExpectedRole(s) ==
    IF HasWord(s, <<"u","s","e","r">>) THEN PROMPTER
    ELSE IF \/ HasWord(s, <<"a","s","s","i","s","t","a","n","t">>)
            \/ HasWord(s, <<"b","o","t">>)
            \/ HasWord(s, <<"c","h","a","t","g","p","t">>)
         THEN CHAT
    ELSE None

RECURSIVE TrimLeft(_)
TrimLeft(s) == IF s # <<>> /\ IsSpace(Head(s)) THEN TrimLeft(Tail(s)) ELSE s

RECURSIVE TrimRight(_)
TrimRight(s) ==
    IF s # <<>> /\ IsSpace(Last(s)) THEN TrimRight(SubSeq(s, 1, Len(s) - 1)) ELSE s

\* s without its leading and trailing whitespace
Trimmed(s) == TrimRight(TrimLeft(s))

RECURSIVE Concat(_)
\* the fragments one after the other, in order
Concat(frags) ==
    IF frags = <<>> THEN <<>>
    ELSE Concat(SubSeq(frags, 1, Len(frags) - 1)) \o Last(frags)

\* the class attribute of a start tag is written without a value
ClassValueless(e) == DictGet(e.attrs, "class", StrVal(<<>>)).none

\* the class-attribute text of a start tag, empty when there is none
ClassText(e) == DictGet(e.attrs, "class", StrVal(<<>>)).s

\* the step delivers one callback of this kind
Delivers(kind) == Len(events') = Len(events) + 1 /\ Last(events').kind = kind

\* a start tag that carries a role signal
IsMarker(e) == e.kind = "start" /\ ~ClassValueless(e) /\ ExpectedRole(ClassText(e)) # None

IsPrefix(s, t) == Len(s) <= Len(t) /\ SubSeq(t, 1, Len(s)) = s

OpenUser == StartEvent("div", ClassAttr(cls_user))

OpenBot == StartEvent("div", ClassAttr(cls_bot))

OpenUserMessage == StartEvent("div", ClassAttr(cls_user_message))

OpenAssistantMessage == StartEvent("div", ClassAttr(cls_assistant_message))

\* ------------------------------------------------------------- claims

\* C1: at the end of the input, a role still active with text that is not
\* empty after trimming is flushed: the returned transcript ends with
\* (that role, the trimmed buffered text).
C1_EndOfInputFlush ==
    (pc = "done" /\ current_role # None /\ Trimmed(Concat(buffer)) # <<>>)
        => /\ messages # <<>>
           /\ Last(messages) = <<current_role, Trimmed(Concat(buffer))>>

\* C2: the extractor never raises: no callback ends in an exception, whatever
\* the tags and whether the class attribute is absent, empty or without a value.
C2_NeverRaises == pc # "error"

\* C3: for a document of role-marked elements, each followed by text and a
\* div/p/span end tag, the transcript is one Message per element whose text has
\* a non-whitespace character, in document order, with the role of the class
\* text and the texts concatenated in order and trimmed.
RECURSIVE Reference(_, _)
Reference(evs, i) ==
    IF i > Len(evs) THEN <<>>
    ELSE LET j == CHOOSE k \in (i + 1)..Len(evs) :
                      /\ evs[k].kind = "end"
                      /\ \A l \in (i + 1)..(k - 1) : evs[l].kind = "data"
             text == Concat([l \in 1..(j - i - 1) |-> evs[i + l].data])
             mine == IF \E l \in 1..Len(text) : ~IsSpace(text[l])
                     THEN << <<ExpectedRole(ClassText(evs[i])), Trimmed(text)>> >>
                     ELSE <<>>
         IN  mine \o Reference(evs, j + 1)

C3_ExtractionMatchesReference ==
    ~InElement => pc # "error" /\ messages = Reference(events, 1)

C3_Witness ==
    /\ pc = "done"
    /\ events = <<OpenUserMessage, DataEvent(txt_Hi_there), EndEvent("div"),
                  OpenAssistantMessage, DataEvent(txt_Hello), EndEvent("div")>>
    /\ messages = << <<PROMPTER, txt_Hi_there>>, <<CHAT, txt_Hello>> >>

\* C4: every Message of the transcript has a text that is not empty and has
\* no leading or trailing whitespace.
C4_MessagesTrimmedNonEmpty ==
    \A i \in 1..Len(messages) :
        LET text == messages[i][2]
        IN  text # <<>> /\ ~IsSpace(text[1]) /\ ~IsSpace(text[Len(text)])

C4_Witness ==
    /\ events = <<OpenUser, DataEvent(txt_ws), DataEvent(txt_B), EndEvent("p"),
                  OpenBot>>
    /\ messages = << <<PROMPTER, <<"B">>>> >>

\* C5: on a start tag whose class text contains "user" in any letter case the
\* role signal is PROMPTER, also when it contains "assistant", "bot" or
\* "chatgpt"; otherwise, if it contains one of these three, the signal is CHAT;
\* otherwise the tag gives no signal and changes nothing.
C5_RolePriority ==
    [][ (Delivers("start") /\ ~ClassValueless(Last(events')))
            => LET c == ClassText(Last(events'))
               IN  IF HasWord(c, <<"u","s","e","r">>)
                   THEN current_role' = PROMPTER
                   ELSE IF \/ HasWord(c, <<"a","s","s","i","s","t","a","n","t">>)
                           \/ HasWord(c, <<"b","o","t">>)
                           \/ HasWord(c, <<"c","h","a","t","g","p","t">>)
                        THEN current_role' = CHAT
                        ELSE UNCHANGED <<current_role, buffer, messages>> ]_vars

C5_Witness ==
    /\ events = <<StartEvent("div", ClassAttr(cls_bot)),
                  StartEvent("div", ClassAttr(cls_chatgpt_USER))>>
    /\ current_role = PROMPTER

\* C6: a start tag with a role signal, met while a message is open, first
\* flushes the buffered text as a Message of the role active until then (when
\* its trimmed text is not empty), and only then makes the new role current,
\* with an empty buffer.
C6_FlushUnderPreviousRole ==
    [][ (Delivers("start") /\ IsMarker(Last(events')) /\ current_role # None)
            => LET text == Trimmed(Concat(buffer))
               IN  /\ messages' = IF text # <<>>
                                  THEN Append(messages, <<current_role, text>>)
                                  ELSE messages
                   /\ current_role' = ExpectedRole(ClassText(Last(events')))
                   /\ buffer' = <<>> ]_vars

C6_Witness ==
    /\ events = <<OpenUser, DataEvent(txt_A), DataEvent(txt_B), OpenBot>>
    /\ messages = << <<PROMPTER, <<"A"," ","B">>>> >>
    /\ current_role = CHAT
    /\ buffer = <<>>

RECURSIVE Scan(_)
\* the parser after the callbacks evs, with those of them that were not a text
\* delivered while no role was active
Scan(evs) ==
    IF evs = <<>> THEN [st |-> NewParser, kept |-> <<>>]
    ELSE CHOOSE r \in
            { [st |-> Dispatch(p.st, Last(evs)),
               kept |-> IF Last(evs).kind = "data" /\ p.st.current_role = None
                        THEN p.kept
                        ELSE Append(p.kept, Last(evs))] :
              p \in {Scan(SubSeq(evs, 1, Len(evs) - 1))} } : TRUE

\* C7: a text callback delivered while no role is active changes neither the
\* buffer nor the transcript, and contributes nothing to the final transcript:
\* what is returned is the transcript of the document without those texts.
C7_TextWithoutRoleDiscarded ==
    [][ /\ (Delivers("data") /\ current_role = None)
            => UNCHANGED <<buffer, messages, current_role>>
        /\ pc' = "done" => messages' = Feed(Scan(events').kept).messages ]_vars

C7_Witness ==
    /\ pc = "done"
    /\ events = <<DataEvent(txt_A), OpenUser, DataEvent(txt_B), EndEvent("div"),
                  DataEvent(txt_A)>>
    /\ messages = << <<PROMPTER, <<"B">>>> >>
    /\ buffer = <<>>

\* C8: an end tag named div, p or span, met while a role is active, appends
\* (role, the buffered fragments joined in order and trimmed) exactly when that
\* text is not empty, and leaves no role active and the buffer empty either way.
C8_ContainerEndCloses ==
    [][ (/\ Delivers("end")
         /\ Last(events').tag \in {"div", "p", "span"}
         /\ current_role # None)
            => LET text == Trimmed(Concat(buffer))
               IN  /\ messages' = IF text # <<>>
                                  THEN Append(messages, <<current_role, text>>)
                                  ELSE messages
                   /\ current_role' = None
                   /\ buffer' = <<>> ]_vars

C8_Witness ==
    /\ events = <<OpenUser, DataEvent(txt_ws), EndEvent("div"),
                  OpenBot, EndEvent("p")>>
    /\ messages = <<>>
    /\ current_role = None
    /\ buffer = <<>>

\* the document <div class="user"><p>A</p> B </div>, up to its last text
NestedUpToB ==
    <<OpenUser, StartEvent("p", <<>>), DataEvent(txt_A), EndEvent("p"),
      DataEvent(txt_B)>>

\* the position of the last role marker
LastMarker(evs) ==
    CHOOSE m \in 0..Len(evs) :
        /\ m > 0 => IsMarker(evs[m])
        /\ \A k \in (m + 1)..Len(evs) : ~IsMarker(evs[k])

\* C9: the close is not matched to the opening element: while a role is
\* active no div/p/span end tag has been met since its marker, at any depth,
\* so in <div class=user><p>A</p>B</div> the Message holds A alone and B is
\* discarded.
C9_CloseNotMatchedToOpening ==
    /\ current_role # None
         => \A k \in (LastMarker(events) + 1)..Len(events) :
                ~(events[k].kind = "end" /\ events[k].tag \in {"div", "p", "span"})
    /\ IsPrefix(NestedUpToB, events)
         => /\ messages # <<>>
            /\ messages[1] = <<PROMPTER, <<"A">>>>
            /\ Len(events) = Len(NestedUpToB)
                 => Len(messages) = 1 /\ current_role = None /\ buffer = <<>>
    /\ events = Append(NestedUpToB, EndEvent("div"))
         => messages = << <<PROMPTER, <<"A">>>> >> /\ current_role = None

C9_Witness ==
    /\ events = NestedUpToB
    /\ pc = "done"
    /\ messages = << <<PROMPTER, <<"A">>>> >>
    /\ current_role = None
    /\ buffer = <<>>

\* a callback between two markers that carries no text and closes nothing
Blank(e) ==
    \/ e.kind = "data" /\ \A l \in 1..Len(e.data) : IsSpace(e.data[l])
    \/ e.kind = "start" /\ ~ClassValueless(e) /\ ~IsMarker(e)

\* C10: a role marker followed by another role marker, with nothing but
\* whitespace-only text (or none) and no end tag between them, yields no
\* Message: after the second marker the transcript is what it was right after
\* the first.
C10_EmptyMarkerYieldsNothing ==
    \A m \in 1..Len(events) :
        (/\ m < Len(events)
         /\ IsMarker(events[m])
         /\ IsMarker(Last(events))
         /\ \A k \in (m + 1)..(Len(events) - 1) : Blank(events[k]))
            => messages = Feed(SubSeq(events, 1, m)).messages

C10_Witness ==
    /\ events = <<OpenUser, DataEvent(txt_A), OpenBot, DataEvent(txt_ws),
                  OpenUser>>
    /\ messages = << <<PROMPTER, <<"A">>>> >>
    /\ current_role = PROMPTER

RECURSIVE Origins(_)
\* the parser after the callbacks evs, the position of the last role marker
\* among them, and for each Message appended the position of the marker that
\* was the last one before the callback that appended it
Origins(evs) ==
    IF evs = <<>> THEN [st |-> NewParser, marker |-> 0, from |-> <<>>]
    ELSE CHOOSE r \in UNION
            { { [st |-> after,
                 marker |-> IF IsMarker(Last(evs)) THEN Len(evs) ELSE p.marker,
                 from |-> IF Len(after.messages) > Len(p.st.messages)
                          THEN Append(p.from, p.marker)
                          ELSE p.from] :
                after \in {Dispatch(p.st, Last(evs))} } :
              p \in {Origins(SubSeq(evs, 1, Len(evs) - 1))} } : TRUE

\* C11: the transcript is append-only and in document order: every step leaves
\* the transcript it found as a prefix of the new one, and the Messages of the
\* returned transcript come from role markers in strictly increasing positions.
C11_AppendOnlyDocumentOrder ==
    [][ /\ IsPrefix(messages, messages')
        /\ pc' = "done" =>
             LET o == Origins(events')
             IN  /\ o.st.messages = messages'
                 /\ Len(o.from) = Len(messages')
                 /\ \A i \in 1..Len(o.from) :
                        /\ o.from[i] > 0
                        /\ \A j \in (i + 1)..Len(o.from) : o.from[i] < o.from[j] ]_vars

C11_Witness ==
    /\ pc = "done"
    /\ events = <<OpenBot, DataEvent(txt_B), OpenUser, DataEvent(txt_A), EndEvent("p")>>
    /\ messages = << <<CHAT, <<"B">>>>, <<PROMPTER, <<"A">>>> >>

\* C16: an end tag leaves the current role, the buffer and the transcript as
\* they are unless a role is active and the tag is named div, p or span: other
\* end tags close nothing, and a container end tag with no role active does
\* nothing.
C16_OtherEndTagsChangeNothing ==
    [][ (/\ Delivers("end")
         /\ ~(current_role # None /\ Last(events').tag \in {"div", "p", "span"}))
            => UNCHANGED <<current_role, buffer, messages>> ]_vars

C16_Witness ==
    /\ events = <<EndEvent("div"), OpenUser, DataEvent(txt_A), EndEvent("b")>>
    /\ current_role = PROMPTER
    /\ buffer = <<txt_A>>
    /\ messages = <<>>

\* C18: whenever no role is active the buffer is empty.
C18_NoRoleEmptyBuffer == current_role = None => buffer = <<>>

C18_Witness ==
    /\ events = <<OpenUser, DataEvent(txt_A), DataEvent(txt_B), EndEvent("p"),
                  DataEvent(txt_A)>>
    /\ current_role = None
    /\ buffer = <<>>

\* the number of role markers among the callbacks
MarkerCount(evs) == Cardinality({i \in 1..Len(evs) : IsMarker(evs[i])})

\* C19: a role marker yields at most one Message: the transcript never holds
\* more Messages than role markers were met, and a Message appended by a
\* callback has the role of the last marker met before that callback.
C19_AtMostOneMessagePerMarker ==
    [][ /\ Len(messages') <= MarkerCount(events')
        /\ messages' # messages
             => /\ LastMarker(events) > 0
                /\ Len(messages') = Len(messages) + 1
                /\ Last(messages')[1] =
                       ExpectedRole(ClassText(events[LastMarker(events)])) ]_vars

C19_Witness ==
    /\ events = <<OpenUser, DataEvent(txt_A), EndEvent("div"), DataEvent(txt_B),
                  EndEvent("div")>>
    /\ messages = << <<PROMPTER, <<"A">>>> >>

IsData(e) == e.kind = "data"

\* the texts delivered after position m, in order
TextSince(evs, m) ==
    LET texts == SelectSeq(SubSeq(evs, m + 1, Len(evs)), IsData)
    IN  [i \in 1..Len(texts) |-> texts[i].data]

\* C17: a start tag with no role signal (no class, an empty class, a class
\* naming none of user, assistant, bot, chatgpt) leaves the current role, the
\* buffer and the transcript as they are, so that while a role is active the
\* buffer holds every text met since its marker, on either side of such tags.
C17_NoSignalStartChangesNothing ==
    [][ /\ (/\ Delivers("start")
            /\ ~ClassValueless(Last(events'))
            /\ ExpectedRole(ClassText(Last(events'))) = None)
               => UNCHANGED <<current_role, buffer, messages>>
        /\ current_role' # None
               => buffer' = TextSince(events', LastMarker(events')) ]_vars

C17_Witness ==
    /\ events = <<StartEvent("div", ClassAttr(cls_user)), DataEvent(txt_A),
                  StartEvent("a", ClassAttr(cls_message)), DataEvent(txt_B),
                  EndEvent("div")>>
    /\ messages = << <<PROMPTER, <<"A"," ","B">>>> >>

\* C12: converting the same input twice, one call after the other, gives the
\* same outcome and the same Message sequence; the second call starts with no
\* role, an empty buffer and an empty transcript, whatever the first left.
C12_SecondCallSameTranscript ==
    earlier # <<>> =>
        /\ (pc = "feeding" /\ events = <<>>)
               => messages = <<>> /\ current_role = None /\ buffer = <<>>
        /\ pc \in {"done", "error"}
               => /\ events = earlier[1].events
                  /\ pc = earlier[1].pc
                  /\ messages = earlier[1].messages

C12_Witness ==
    /\ earlier # <<>>
    /\ pc = "done"
    /\ events = <<OpenUser, DataEvent(txt_A), OpenBot, DataEvent(txt_B)>>
    /\ messages = << <<PROMPTER, <<"A">>>> >>
    /\ current_role = CHAT
    /\ buffer = <<txt_B>>

\* C13: write_markdown produces, for the Messages in order, the role label
\* (PROMPTER or CHAT), ':', a line break, the text unmodified, a line break
\* and a line break; an empty transcript produces empty output.
LineBreak == <<"\n">>

Label(role) ==
    CASE role = PROMPTER -> <<"P","R","O","M","P","T","E","R">>
      [] role = CHAT -> <<"C","H","A","T">>

RECURSIVE Serialized(_)
Serialized(t) ==
    IF t = <<>> THEN <<>>
    ELSE LET m == t[Len(t)]
         IN  Serialized(SubSeq(t, 1, Len(t) - 1))
                 \o Label(m[1]) \o <<":">> \o LineBreak \o m[2] \o LineBreak \o LineBreak

C13_Serialization ==
    pc = "finished" =>
        /\ Len(cli.written) = 1
        /\ cli.written[1].content = Serialized(messages)
        /\ messages = <<>> => cli.written[1].content = <<>>

C13_Witness ==
    /\ pc = "finished"
    /\ events = <<OpenUser, DataEvent(txt_A), OpenBot, DataEvent(txt_B), EndEvent("div")>>
    /\ cli.written[1].content =
           <<"P","R","O","M","P","T","E","R",":","\n","A","\n","\n",
             "C","H","A","T",":","\n","B","\n","\n">>

\* C14: when the input path is not an existing regular file, main ends with
\* the error 'Input file not found' before any extraction and before any
\* output file is opened or written; the run produces no output file.
C14_InputNotFound ==
    cli.kind # "file" =>
        /\ pc \in {"main", "exit"}
        /\ pc = "exit" => cli.exit = "Input file not found"
        /\ events = <<>>
        /\ messages = <<>>
        /\ cli.written = <<>>
        /\ cli.printed = <<>>

C14_Witness ==
    /\ pc = "exit"
    /\ cli.kind = "dir"
    /\ cli.input_file = path_chat_html
    /\ cli.output_file = StrVal(path_out_txt)
    /\ cli.exit = "Input file not found"
    /\ cli.written = <<>>

\* C15: when no output path is given, the output is written to the input path
\* with its extension replaced by '.md' (chat.html -> chat.md); when an output
\* path is given it is used unchanged; the count reported equals the number
\* of Messages extracted and written.  An empty argument names no path and
\* counts as none given.
NoOutputGiven == cli.output_file.none \/ cli.output_file.s = <<>>

\* where the last path component starts
BaseStart(p) ==
    IF \E i \in 1..Len(p) : p[i] = "/"
    THEN 1 + CHOOSE i \in 1..Len(p) : p[i] = "/" /\ \A k \in (i + 1)..Len(p) : p[k] # "/"
    ELSE 1

\* the dots of the last component that can start an extension: some
\* character other than a dot comes before them in the component
ExtensionDots(p) ==
    {i \in BaseStart(p)..Len(p) :
        p[i] = "." /\ \E k \in BaseStart(p)..(i - 1) : p[k] # "."}

ReplacedExt(p) ==
    LET stem == IF ExtensionDots(p) = {} THEN p
                ELSE SubSeq(p, 1, (CHOOSE i \in ExtensionDots(p) :
                                      \A k \in ExtensionDots(p) : k <= i) - 1)
    IN  stem \o <<".","m","d">>

\* the Messages a written file holds: each ends with a blank line
BlankLines(s) == Cardinality({i \in 1..(Len(s) - 1) : s[i] = "\n" /\ s[i + 1] = "\n"})

C15_DefaultOutputPath ==
    pc = "finished" =>
        /\ Len(cli.written) = 1 /\ Len(cli.printed) = 1
        /\ cli.written[1].path =
               IF NoOutputGiven THEN ReplacedExt(cli.input_file) ELSE cli.output_file.s
        /\ cli.printed[1].path = cli.written[1].path
        /\ cli.printed[1].count = Len(messages)
        /\ cli.printed[1].count = BlankLines(cli.written[1].content)

C15_Witness ==
    /\ pc = "finished"
    /\ cli.input_file = path_chat_html
    /\ cli.output_file = NoneVal
    /\ cli.written[1].path = <<"c","h","a","t",".","m","d">>
    /\ cli.printed[1].count = 2

====
